---- MODULE Spec2Model ----
(***************************************************************************)
(* Model of contrib/src/uuid.rs: the UUID request-parameter wrapper of     *)
(* rocket_contrib.  The wrapper is a one-field tuple struct around         *)
(* uuid_ext::Uuid; every operation is a pure function of its arguments.    *)
(* The model draws the request texts in Init and applies one operation of  *)
(* the wrapper per step, recording what it returned.                       *)
(*                                                                         *)
(* Texts are sequences of one-character strings.  A Uuid is a sequence of  *)
(* 16 bytes.  The uuid crate itself (uuid_ext) is an external dependency   *)
(* whose source is not part of the repository: the Uuid_* operators below  *)
(* follow its contract as the specification and the unit tests of uuid.rs  *)
(* describe it.                                                            *)
(***************************************************************************)
EXTENDS Integers, Sequences, FiniteSets

VARIABLES input, input2, op, via, held, out

vars == <<input, input2, op, via, held, out>>

----------------------------------------------------------------------------
(* Bounds of the input space.                                              *)

\* Generated digit strings besides the one of the unit tests: seeds 0..MaxSeed.
MaxSeed == 1

\* Longest run of characters appended to a well-formed text.
MaxAppend == 2

----------------------------------------------------------------------------
(* Characters and texts.                                                   *)

HexLower == <<"0","1","2","3","4","5","6","7","8","9","a","b","c","d","e","f">>

HexUpper == <<"0","1","2","3","4","5","6","7","8","9","A","B","C","D","E","F">>

IsHex(c) == \E i \in 1..16 : HexLower[i] = c \/ HexUpper[i] = c

HexVal(c) == (CHOOSE i \in 1..16 : HexLower[i] = c \/ HexUpper[i] = c) - 1

ToLowerChar(c) == IF \E i \in 1..16 : HexUpper[i] = c
                  THEN HexLower[CHOOSE i \in 1..16 : HexUpper[i] = c]
                  ELSE c

ToUpperChar(c) == IF \E i \in 1..16 : HexLower[i] = c
                  THEN HexUpper[CHOOSE i \in 1..16 : HexLower[i] = c]
                  ELSE c

ToLower(s) == [i \in 1..Len(s) |-> ToLowerChar(s[i])]

ToUpper(s) == [i \in 1..Len(s) |-> ToUpperChar(s[i])]

\* Upper case in the odd positions only.
MixedCase(s) == [i \in 1..Len(s) |-> IF i % 2 = 1 THEN ToUpperChar(s[i]) ELSE s[i]]

Replace(s, k, c) == [i \in 1..Len(s) |-> IF i = k THEN c ELSE s[i]]

----------------------------------------------------------------------------
(* uuid_ext: the external uuid crate.                                      *)

SIMPLE_LENGTH == 32

HYPHENATED_LENGTH == 36

\* 1-based positions of the hyphens of the 8-4-4-4-12 grouping.
HyphenPositions == {9, 14, 19, 24}

Ok(v) == [ok |-> TRUE, val |-> v]

Err(e) == [ok |-> FALSE, err |-> e]

InvalidLength(n) == [kind |-> "InvalidLength", len |-> n]

\* pos is the 0-based index of the offending character.
InvalidCharacter(c, pos) == [kind |-> "InvalidCharacter", ch |-> c, pos |-> pos]

InvalidGroups(n) == [kind |-> "InvalidGroups", groups |-> n]

\* The 16 bytes spelled by 32 hexadecimal digits.
BytesOf(digits) == [i \in 1..16 |-> 16 * HexVal(digits[2 * i - 1]) + HexVal(digits[2 * i])]

\* uuid_ext::Uuid as FromStr: 32 hexadecimal digits of either case, bare or
\* grouped 8-4-4-4-12 by hyphens; otherwise the structured ParseError.
Uuid_parse_str(s) ==
    LET len == Len(s)
        bad == {i \in 1..len : ~IsHex(s[i]) /\ s[i] # "-"}
        hyphens == {i \in 1..len : s[i] = "-"}
        first == CHOOSE i \in bad : \A j \in bad : i <= j
    IN  IF len # SIMPLE_LENGTH /\ len # HYPHENATED_LENGTH
        THEN Err(InvalidLength(len))
        ELSE IF bad # {}
        THEN Err(InvalidCharacter(s[first], first - 1))
        ELSE IF len = SIMPLE_LENGTH /\ hyphens = {}
        THEN Ok(BytesOf(s))
        ELSE IF len = HYPHENATED_LENGTH /\ hyphens = HyphenPositions
        THEN Ok(BytesOf(SelectSeq(s, IsHex)))
        ELSE Err(InvalidGroups(Cardinality(hyphens) + 1))

\* The text of a run of bytes: two lowercase digits each.
HexOf(bytes) == [i \in 1..(2 * Len(bytes)) |->
                    IF i % 2 = 1 THEN HexLower[(bytes[(i + 1) \div 2] \div 16) + 1]
                                 ELSE HexLower[(bytes[i \div 2] % 16) + 1]]

\* uuid_ext::Uuid as Display: lowercase, hyphenated 8-4-4-4-12.
Uuid_fmt(u) ==
    HexOf(SubSeq(u, 1, 4)) \o <<"-">> \o HexOf(SubSeq(u, 5, 6)) \o <<"-">> \o
    HexOf(SubSeq(u, 7, 8)) \o <<"-">> \o HexOf(SubSeq(u, 9, 10)) \o <<"-">> \o
    HexOf(SubSeq(u, 11, 16))

\* uuid_ext::Uuid as PartialEq: equality of the 16 bytes.
Uuid_eq(a, b) == \A i \in 1..16 : a[i] = b[i]

\* uuid_ext::Uuid as Ord: the bytes compared left to right.
Uuid_cmp(a, b) ==
    LET diff == {i \in 1..16 : a[i] # b[i]}
        i0 == CHOOSE i \in diff : \A j \in diff : i <= j
    IN  IF diff = {} THEN "Equal"
        ELSE IF a[i0] < b[i0] THEN "Less" ELSE "Greater"

----------------------------------------------------------------------------
(* The wrapper: pub struct UUID(uuid_ext::Uuid).                           *)

\* The tuple struct: its single field is UUID(v)[1].
UUID(v) == <<v>>

\* No wrapper held yet.
NoUUID == <<>>

\* Variant: the bytes handed back in the opposite order.
into_inner_reversed(self) == [i \in 1..16 |-> self[1][17 - i]]

into_inner(self) == self[1]

\* Variant: the Debug rendering in place of Display.
UUID_fmt_debug(self) == <<"U", "U", "I", "D", "(">> \o Uuid_fmt(self[1]) \o <<")">>

\* Variant: upper-case digits.
UUID_fmt_upper(self) == ToUpper(Uuid_fmt(self[1]))

UUID_fmt(self) == Uuid_fmt(self[1])

\* impl FromStr for UUID: Ok(UUID(try!(s.parse()))).  try! returns
\* Err(From::from(e)) early; From is the identity on UuidParseError.
from_str(s) ==
    LET r == Uuid_parse_str(s)
    IN  IF r.ok THEN Ok(UUID(r.val)) ELSE Err(r.err)

\* Variant: the library's error replaced by one the wrapper makes up.
from_param_own_error(param) ==
    LET r == from_str(param)
    IN  IF r.ok THEN r ELSE Err(InvalidLength(Len(param)))

\* Variant: only the first HYPHENATED_LENGTH characters are parsed.
from_param_prefix(param) ==
    from_str(SubSeq(param, 1, IF Len(param) < HYPHENATED_LENGTH THEN Len(param) ELSE HYPHENATED_LENGTH))

\* impl FromParam for UUID: param.parse(), which is UUID::from_str on the
\* text of the RawStr.
from_param(param) == from_str(param)

\* The error payload of from_form_value: the &RawStr it was handed.
RawStr(text) == [kind |-> "RawStr", text |-> text]

\* Variant: the payload normalised instead of handed back as received.
from_form_value_lowered(form_value) ==
    LET r == from_str(form_value)
    IN  IF r.ok THEN r ELSE Err(RawStr(ToLower(form_value)))

\* Variant: a failed parse falls back to the nil UUID.
from_form_value_nil(form_value) ==
    LET r == from_str(form_value)
    IN  IF r.ok THEN r ELSE Ok(UUID([i \in 1..16 |-> 0]))

\* impl FromFormValue for UUID: form_value.parse().map_err(|_| form_value).
from_form_value(form_value) ==
    LET r == from_str(form_value)
    IN  IF r.ok THEN r ELSE Err(RawStr(form_value))

\* #[derive(PartialEq, Eq)]: the fields compared.
UUID_eq(self, other) == Uuid_eq(self[1], other[1])

\* Variant: the operands compared the wrong way round.
UUID_cmp_swapped(self, other) == Uuid_cmp(other[1], self[1])

\* #[derive(PartialOrd, Ord)]: the fields compared in order.
UUID_cmp(self, other) == Uuid_cmp(self[1], other[1])

\* Variant: the wrapped value compared with itself.
UUID_eq_Uuid_self(self, other) == Uuid_eq(self[1], self[1])

\* impl PartialEq<uuid_ext::Uuid> for UUID: self.0.eq(other).
UUID_eq_Uuid(self, other) == Uuid_eq(self[1], other)

----------------------------------------------------------------------------
(* The request texts.                                                      *)

\* The digits of the UUID the unit tests use.
TestDigits == <<"c", "1", "a", "a", "1", "e", "3", "b", "9", "6", "1", "4", "4", "8", "9", "5", "9", "e", "b", "d", "7", "0", "5", "2", "5", "5", "f", "a", "5", "b", "c", "2">>

GenDigits(seed) == [j \in 1..SIMPLE_LENGTH |-> HexLower[((seed * 5 + j * 3) % 16) + 1]]

Bases == {TestDigits} \cup {GenDigits(k) : k \in 0..MaxSeed}

Hyphenate(d) ==
    SubSeq(d, 1, 8) \o <<"-">> \o SubSeq(d, 9, 12) \o <<"-">> \o
    SubSeq(d, 13, 16) \o <<"-">> \o SubSeq(d, 17, 20) \o <<"-">> \o SubSeq(d, 21, 32)

Pad(n) == [i \in 1..n |-> "p"]

MutPositions == {1, 9, 36}

MutChars == {"g", "-", "0"}

WellFormed(d) == {Hyphenate(d), d, ToUpper(Hyphenate(d)), ToUpper(d), MixedCase(Hyphenate(d))}

Variants(d) ==
    LET h == Hyphenate(d)
        stems == {h, d, ToUpper(h)}
    IN  WellFormed(d)
        \cup {t \o Pad(n) : t \in stems, n \in 1..MaxAppend}
        \cup {SubSeq(h, 1, 35), SubSeq(d, 1, 31), <<"{">> \o h \o <<"}">>}
        \cup UNION {{Replace(t, k, c) : k \in MutPositions \cap (1..Len(t)), c \in MutChars} : t \in stems}

Inputs == {<<>>} \cup UNION {Variants(d) : d \in Bases}

\* The second operand of a comparison.
Operands == UNION {{Hyphenate(d), ToUpper(d)} : d \in Bases} \cup {Hyphenate(TestDigits) \o Pad(1)}

----------------------------------------------------------------------------
(* The state machine: one operation of the wrapper per step.               *)

Init ==
    /\ input \in Inputs
    /\ input2 \in Operands
    /\ op = "none"
    /\ via = "none"
    /\ held = NoUUID
    /\ out = <<>>

\* The wrapper a parse returned, if it returned one.
Keep(r) == IF r.ok THEN r.val ELSE NoUUID

FromStr ==
    /\ op' = "from_str"
    /\ out' = from_str(input)
    /\ held' = Keep(out')
    /\ via' = "from_str"
    /\ UNCHANGED <<input, input2>>

FromParam ==
    /\ op' = "from_param"
    /\ out' = from_param(input)
    /\ held' = Keep(out')
    /\ via' = "from_param"
    /\ UNCHANGED <<input, input2>>

FromFormValue ==
    /\ op' = "from_form_value"
    /\ out' = from_form_value(input)
    /\ held' = Keep(out')
    /\ via' = "from_form_value"
    /\ UNCHANGED <<input, input2>>

\* to_string() of the held wrapper, through its Display.
ToString ==
    /\ held # NoUUID
    /\ op' = "to_string"
    /\ out' = UUID_fmt(held)
    /\ UNCHANGED <<input, input2, via, held>>

\* The rendered text parsed again.
Reparse ==
    /\ op = "to_string"
    /\ op' = "reparse"
    /\ out' = from_str(out)
    /\ UNCHANGED <<input, input2, via, held>>

IntoInner ==
    /\ held # NoUUID
    /\ op' = "into_inner"
    /\ out' = into_inner(held)
    /\ UNCHANGED <<input, input2, via, held>>

\* The held wrapper against the wrapper parsed from the second text.
Compare ==
    /\ held # NoUUID
    /\ from_str(input2).ok
    /\ op' = "compare"
    /\ out' = [eq |-> UUID_eq(held, from_str(input2).val),
               ord |-> UUID_cmp(held, from_str(input2).val),
               rev |-> UUID_cmp(from_str(input2).val, held)]
    /\ UNCHANGED <<input, input2, via, held>>

\* The held wrapper against the bare Uuid parsed from the second text.
CompareUuid ==
    /\ held # NoUUID
    /\ Uuid_parse_str(input2).ok
    /\ op' = "compare_uuid"
    /\ out' = UUID_eq_Uuid(held, Uuid_parse_str(input2).val)
    /\ UNCHANGED <<input, input2, via, held>>

Next ==
    \/ FromStr
    \/ FromParam
    \/ FromFormValue
    \/ ToString
    \/ Reparse
    \/ IntoInner
    \/ Compare
    \/ CompareUuid

Spec == Init /\ [][Next]_vars

----------------------------------------------------------------------------
(* Properties.                                                             *)

\* What the library makes of the first and of the second text.
Lib1 == Uuid_parse_str(input)

Lib2 == Uuid_parse_str(input2)

\* s is 32 hexadecimal digits grouped 8-4-4-4-12 by hyphens, in any case.
IsHyphenatedForm(s) ==
    /\ Len(s) = 36
    /\ \A i \in 1..36 : IF i \in {9, 14, 19, 24} THEN s[i] = "-" ELSE IsHex(s[i])

\* s is the canonical rendering: hyphenated, and no upper-case digit.
IsCanonicalLower(s) == IsHyphenatedForm(s) /\ ToLower(s) = s

Reverse(o) == IF o = "Less" THEN "Greater" ELSE IF o = "Greater" THEN "Less" ELSE o

\* C1: from_param succeeds exactly when the library's parse of the same text
\* succeeds; when it fails, its error is the library's ParseError for that text,
\* unchanged, and no UUID has been produced.
C1_FromParamIsLibraryParse ==
    op = "from_param" =>
        /\ out.ok <=> Lib1.ok
        /\ ~Lib1.ok => (~out.ok /\ out.err = Lib1.err /\ held = NoUUID)

C1_Witness ==
    /\ op = "from_param"
    /\ ~out.ok
    /\ out.err = InvalidCharacter("g", 35)

\* C2: for every text the library rejects, from_form_value fails and its error
\* payload is the text it was given, unchanged, whatever the cause of the
\* rejection; it is never the structured ParseError.
C2_FormValueEchoesInput ==
    (op = "from_form_value" /\ ~Lib1.ok) =>
        /\ ~out.ok
        /\ out.err.kind = "RawStr"
        /\ out.err.text = input

C2_Witness ==
    /\ op = "from_form_value"
    /\ ~out.ok
    /\ Lib1.err.kind = "InvalidGroups"
    /\ out.err.text = input
    /\ ToLower(input) # input

\* C4: the text rendered from a UUID parses, and parses to that same UUID.
C4_ParseOfRenderingIsIdentity ==
    op = "reparse" => (out.ok /\ out.val = held)

C4_Witness ==
    /\ op = "reparse"
    /\ out.ok
    /\ out.val = held
    /\ Len(input) = SIMPLE_LENGTH

\* C5: a UUID parsed by from_str or from_param from a hyphenated text renders as
\* that text with its digits lowercased and its hyphens where they were; every
\* rendering is 36 characters of lowercase digits grouped 8-4-4-4-12.
C5_RenderingIsLowercasedInput ==
    op = "to_string" =>
        /\ IsCanonicalLower(out)
        /\ (via \in {"from_str", "from_param"} /\ IsHyphenatedForm(input)) => out = ToLower(input)

C5_Witness ==
    /\ op = "to_string"
    /\ via = "from_param"
    /\ IsHyphenatedForm(input)
    /\ out = ToLower(input)
    /\ out # input

\* C6: from_param of a text whose length is neither 32 nor 36 fails with
\* InvalidLength carrying the length of the text.
C6_WrongLengthIsInvalidLength ==
    (op = "from_param" /\ Len(input) \notin {32, 36}) =>
        out = Err(InvalidLength(Len(input)))

C6_Witness ==
    /\ op = "from_param"
    /\ input = Hyphenate(TestDigits) \o <<"p">>
    /\ out = Err(InvalidLength(37))

\* C7: into_inner of the UUID parsed from a text by from_str or from_param is
\* the value the library parses from that text.
C7_IntoInnerIsLibraryValue ==
    (op = "into_inner" /\ via \in {"from_str", "from_param"}) =>
        (Lib1.ok /\ out = Lib1.val)

C7_Witness ==
    /\ op = "into_inner"
    /\ via = "from_str"
    /\ out = BytesOf(TestDigits)

\* C8: two UUIDs are equal exactly when the values they wrap are equal, and a
\* UUID equals a bare library value exactly when the value it wraps equals it;
\* so a UUID equals the library's parse of the text it was parsed from.
C8_EqualityIsOfWrappedValues ==
    /\ op = "compare" => (out.eq <=> held[1] = Lib2.val)
    /\ op = "compare_uuid" => (out <=> held[1] = Lib2.val)
    /\ (op = "compare_uuid" /\ input = input2) => out

C8_Witness ==
    /\ op = "compare_uuid"
    /\ input = input2
    /\ out

\* C9: two parsed UUIDs compare as the library's parses of the same two texts
\* compare; the order is total and is Equal exactly for equal UUIDs.
C9_OrderIsLibraryOrder ==
    op = "compare" =>
        /\ out.ord = Uuid_cmp(Lib1.val, Lib2.val)
        /\ out.ord \in {"Less", "Equal", "Greater"}
        /\ out.rev = Reverse(out.ord)
        /\ out.ord = "Equal" <=> out.eq
        /\ \A d \in Bases :
              LET z == UUID(BytesOf(d))
                  w == UUID(Lib2.val)
              IN  (out.ord = UUID_cmp(w, z) /\ out.ord # "Equal") => UUID_cmp(held, z) = out.ord

C9_Witness ==
    /\ op = "compare"
    /\ out.ord = "Less"
    /\ out.rev = "Greater"
    /\ ~out.eq

\* Two parse results succeed together and then hold equal UUIDs.
Agree(r1, r2) == (r1.ok <=> r2.ok) /\ (r1.ok => UUID_eq(r1.val, r2.val))

\* C10: from_str, from_param and from_form_value succeed on the same texts and
\* then return equal UUIDs; on failure from_str and from_param return the same
\* ParseError and from_form_value the text itself.
C10_EntryPointsAgree ==
    op \in {"from_str", "from_param", "from_form_value"} =>
        /\ Agree(out, from_str(input))
        /\ Agree(out, from_param(input))
        /\ Agree(out, from_form_value(input))
        /\ ~out.ok =>
              /\ from_str(input).err = from_param(input).err
              /\ from_form_value(input).err = RawStr(input)
              /\ out.err = IF op = "from_form_value" THEN RawStr(input) ELSE Lib1.err

C10_Witness ==
    /\ op = "from_form_value"
    /\ ~out.ok
    /\ from_param(input).err = InvalidLength(0)
    /\ from_str(input).err = InvalidLength(0)

====
